---- MODULE Spec2Model ----
(***************************************************************************)
(* Model of app/parse.py: a Selenium scraper that walks the six catalogue  *)
(* sections of the e-commerce demo site, exhausts the "load more" control  *)
(* of the paginated ones, snapshots the page, visits every product's       *)
(* detail page to read the price of each enabled HDD swatch, and writes    *)
(* one CSV file per section.                                               *)
(*                                                                         *)
(* The program is one sequential thread; pc is its position.  The browser  *)
(* page (listing, load-more control, swatches, displayed price) is the     *)
(* environment: what it holds is chosen nondeterministically when the code *)
(* navigates or clicks.  A text is a sequence of one-character strings.    *)
(* An optional value (a missing element, None) is a sequence of length 0   *)
(* or 1.                                                                   *)
(***************************************************************************)
EXTENDS Integers, Sequences, FiniteSets, TLC

VARIABLES
    pc,            \* position of the single thread of control
    err,           \* exception class propagating out of get_all_products, or "none"
    driver,        \* the module global _driver: "unset" or "chrome"
    acquired,      \* number of webdriver.Chrome() sessions started
    quitCalls,     \* number of times WebDriver.quit() has run
    secIdx,        \* index in pages_info of the section being processed
    curPage,       \* URL the browser session currently shows
    listing,       \* listing entries rendered on the current section page
    more,          \* state of the load-more control of the section page
    lookups,       \* find_element calls for the load-more control, this section
    clicks,        \* successful load-more clicks, this section
    product_soups, \* the entries of the snapshot taken for this section
    entryIdx,      \* index in product_soups of the entry being parsed
    products,      \* list of the Products built for this section (the list the
                   \* comprehension builds, then get_all_products' products)
    detailNavs,    \* driver.get calls to detail pages, this section
    swatches,      \* optional swatches group of the current detail page
    btnIdx,        \* index of the button the for loop is at (0 outside the loop)
    shown,         \* text of the detail page's .price element
    displayed,     \* button index -> text shown right after its click
    prices,        \* the dict prices of product_hdd_block_prices
    files,         \* the CSV files written, in the order of writing
    buttonsServed, \* swatch buttons the site has rendered over the run
    snapshots,     \* reads of driver.page_source, this section
    consentAttempts \* lookups of a cookie/consent prompt, this run

vars == <<pc, err, driver, acquired, quitCalls, secIdx, curPage, listing, more,
          lookups, clicks, product_soups, entryIdx, products,
          detailNavs, swatches, btnIdx, shown, displayed, prices, files,
          buttonsServed, snapshots, consentAttempts>>

(***************************************************************************)
(* Bounds of the model.                                                    *)
(***************************************************************************)
MaxProducts == 2   \* listing entries rendered over the whole run
MaxButtons == 3    \* swatch buttons rendered over the whole run

(***************************************************************************)
(* Optional values and dictionaries.                                       *)
(***************************************************************************)
None == <<>>

Some(x) == <<x>>

IsNone(o) == Len(o) = 0

The(o) == o[1]

EmptyDict == [k \in {} |-> 0]

DictSet(d, k, v) == [x \in DOMAIN d \cup {k} |-> IF x = k THEN v ELSE d[x]]

DictGet(d, k, default) == IF k \in DOMAIN d THEN d[k] ELSE default

(***************************************************************************)
(* Text conversions: str.replace, str.split, float(), int().               *)
(***************************************************************************)
Digits == {"0", "1", "2", "3", "4", "5", "6", "7", "8", "9"}

DigitVal(c) ==
    CASE c = "0" -> 0 [] c = "1" -> 1 [] c = "2" -> 2 [] c = "3" -> 3
      [] c = "4" -> 4 [] c = "5" -> 5 [] c = "6" -> 6 [] c = "7" -> 7
      [] c = "8" -> 8 [] c = "9" -> 9

\* text.replace(old, ""): every occurrence of the character is removed
RECURSIVE Replace(_, _)
Replace(text, old) ==
    IF text = <<>> THEN <<>>
    ELSE IF Head(text) = old THEN Replace(Tail(text), old)
    ELSE <<Head(text)>> \o Replace(Tail(text), old)

RECURSIVE LStrip(_)
LStrip(text) ==
    IF text # <<>> /\ Head(text) = " " THEN LStrip(Tail(text)) ELSE text

RECURSIVE RStrip(_)
RStrip(text) ==
    IF text # <<>> /\ text[Len(text)] = " "
    THEN RStrip(SubSeq(text, 1, Len(text) - 1)) ELSE text

Strip(text) == LStrip(RStrip(text))

\* text.split(): the maximal runs of non-blank characters
RECURSIVE FirstWord(_)
FirstWord(text) ==
    IF text = <<>> \/ Head(text) = " " THEN <<>>
    ELSE <<Head(text)>> \o FirstWord(Tail(text))

RECURSIVE Split(_)
Split(text) ==
    LET t == LStrip(text)
        w == FirstWord(t)
    IN IF t = <<>> THEN <<>>
       ELSE <<w>> \o Split(SubSeq(t, Len(w) + 1, Len(t)))

RECURSIVE DigitsValue(_)
DigitsValue(ds) ==
    IF ds = <<>> THEN 0
    ELSE DigitsValue(SubSeq(ds, 1, Len(ds) - 1)) * 10 + DigitVal(ds[Len(ds)])

RECURSIVE Pow10(_)
Pow10(n) == IF n = 0 THEN 1 ELSE 10 * Pow10(n - 1)

AllDigits(ds) == \A i \in 1..Len(ds) : ds[i] \in Digits

DotAt(t) == IF \E i \in 1..Len(t) : t[i] = "."
            THEN CHOOSE i \in 1..Len(t) : t[i] = "." /\ \A j \in 1..(i - 1) : t[j] # "."
            ELSE 0

\* float(text) for texts without sign, exponent or underscore, in hundredths
\* (texts carry at most two decimals): surrounding blanks are dropped, then
\* digits with at most one dot and at least one digit are a number (Some);
\* anything else raises ValueError (None).
ParseFloat(text) ==
    LET t == Strip(text)
        d == DotAt(t)
        whole == IF d = 0 THEN t ELSE SubSeq(t, 1, d - 1)
        frac == IF d = 0 THEN <<>> ELSE SubSeq(t, d + 1, Len(t))
    IN IF AllDigits(whole) /\ AllDigits(frac) /\ Len(whole) + Len(frac) > 0
       THEN Some(DigitsValue(whole) * 100
                 + (DigitsValue(frac) * 100) \div Pow10(Len(frac)))
       ELSE None

\* int(text) for texts without sign or underscore: surrounding blanks are
\* dropped, then only digits are a number (Some); else ValueError (None)
ParseInt(text) ==
    LET t == Strip(text)
    IN IF AllDigits(t) /\ Len(t) > 0 THEN Some(DigitsValue(t)) ELSE None

DigitChar(d) == <<"0", "1", "2", "3", "4", "5", "6", "7", "8", "9">>[d + 1]

\* str(n) of an int n >= 0, as csv.writer writes it
RECURSIVE FormatInt(_)
FormatInt(n) ==
    IF n < 10 THEN <<DigitChar(n)>> ELSE FormatInt(n \div 10) \o <<DigitChar(n % 10)>>

\* str(x) of a float x >= 0 of at most two decimals, given in hundredths, as
\* csv.writer writes it: 10.0, 12.5, 295.99
FormatFloat(h) ==
    FormatInt(h \div 100) \o <<".">> \o
        (IF h % 10 = 0 THEN <<DigitChar((h % 100) \div 10)>>
         ELSE <<DigitChar((h % 100) \div 10), DigitChar(h % 10)>>)

(***************************************************************************)
(* URLs.  A reference is rooted ("/a/b") or relative ("a/b"); BASE_URL is  *)
(* the origin followed by "/", so that urljoin puts a relative reference   *)
(* after the base and a rooted one after the origin.                       *)
(***************************************************************************)
ORIGIN == "https://webscraper.io"

BASE_URL == ORIGIN \o "/"

Ref(rooted, path) == [rooted |-> rooted, path |-> path]

urljoin(base, ref) == IF ref.rooted THEN ORIGIN \o ref.path ELSE base \o ref.path

(***************************************************************************)
(* Configuration: pages_info, PRODUCT_FIELDS.                              *)
(***************************************************************************)
pages_info == <<
    [name |-> "home", path |-> "test-sites/e-commerce/more/", paginate |-> FALSE],
    [name |-> "computers", path |-> "test-sites/e-commerce/more/computers",
     paginate |-> FALSE],
    [name |-> "laptops", path |-> "test-sites/e-commerce/more/computers/laptops",
     paginate |-> TRUE],
    [name |-> "tablets", path |-> "test-sites/e-commerce/more/computers/tablets",
     paginate |-> TRUE],
    [name |-> "phones", path |-> "test-sites/e-commerce/more/phones",
     paginate |-> FALSE],
    [name |-> "touch", path |-> "test-sites/e-commerce/more/phones/touch",
     paginate |-> TRUE] >>

PRODUCT_FIELDS == <<"title", "price", "category", "description", "image">>

\* mutant of SectionUrl: every section is fetched from the first path
SectionUrl_Home(s) == urljoin(BASE_URL, Ref(FALSE, pages_info[1].path))

\* line 141: url = urljoin(BASE_URL, info["path"])
SectionUrl(s) == urljoin(BASE_URL, Ref(FALSE, pages_info[s].path))

\* mutant of Paginate: the flag of the section is ignored
Paginate_Always(s) == TRUE

\* lines 77, 142: the paginate flag get_page_products receives for section s
Paginate(s) == pages_info[s].paginate

\* mutant of FileName: every section is written to PRODUCT_OUTPUT_CSV_PATH
FileName_Fixed(name) == "products.csv"

\* line 143: filename = f"{name}.csv"
FileName(name) == name \o ".csv"


\* lines 60-69: the exception the Product(...) call raises for an entry, in
\* the order the arguments are evaluated, or "none"
BuildError(e) ==
    IF IsNone(e.title) THEN "TypeError"
    ELSE IF IsNone(e.description) THEN "AttributeError"
    ELSE IF IsNone(e.price) THEN "AttributeError"
    ELSE IF IsNone(ParseFloat(Replace(The(e.price), "$"))) THEN "ValueError"
    ELSE IF IsNone(e.rating) THEN "TypeError"
    ELSE IF IsNone(ParseInt(The(e.rating))) THEN "ValueError"
    ELSE IF IsNone(e.reviews) THEN "AttributeError"
    ELSE IF Split(The(e.reviews)) = <<>> THEN "IndexError"
    ELSE IF IsNone(ParseInt(Split(The(e.reviews))[1])) THEN "ValueError"
    ELSE "none"

(***************************************************************************)
(* The site: what a listing entry and a detail page can hold.              *)
(***************************************************************************)
ProductHref(s, p) == Ref(TRUE, "/test-sites/e-commerce/more/product/" \o ToString(10 * s + p))

\* what the p-th entry of a listing shows
TitleAt(p) ==
    CASE p = 1 -> "Asus VivoBook X441NA" [] p = 2 -> "Prestigio SmartBook 133S"
      [] OTHER -> "Aspire E1-510"

DescriptionAt(p) ==
    CASE p = 1 -> "Asus VivoBook, 14in, Celeron N3450, 4GB, 128GB SSD"
      [] p = 2 -> "Prestigio SmartBook 133S, 13.3in, Celeron N3350"
      [] OTHER -> "15.6in, Pentium N3520 2.16GHz, 4GB, 500GB, Linux"

PriceTextAt(p) ==
    CASE p = 1 -> <<"$", "2", "9", "5", ".", "9", "9">>
      [] p = 2 -> <<"$", "2", "9", "9">>
      [] OTHER -> <<"$", "3", "0", "6", ".", "5", "0">>

RatingAt(p) == CASE p = 1 -> <<"3">> [] p = 2 -> <<"2">> [] OTHER -> <<"1">>

ReviewTextAt(p) ==
    CASE p = 1 -> <<"1", "4", " ", "r", "e", "v", "i", "e", "w", "s">>
      [] p = 2 -> <<"8", " ", "r", "e", "v", "i", "e", "w", "s">>
      [] OTHER -> <<"2", " ", "r", "e", "v", "i", "e", "w", "s">>

\* a listing entry (.thumbnail) with every element the parser reads
GoodEntry(s, p) ==
    [title |-> Some([href |-> ProductHref(s, p), title |-> TitleAt(p)]),
     description |-> Some(DescriptionAt(p)),
     price |-> Some(PriceTextAt(p)),
     rating |-> Some(RatingAt(p)),
     reviews |-> Some(ReviewTextAt(p))]

\* the same entry without its .title link
NoTitleEntry(s, p) == [GoodEntry(s, p) EXCEPT !.title = None]

\* the same entry without its .description element
NoDescriptionEntry(s, p) == [GoodEntry(s, p) EXCEPT !.description = None]

\* the same entry with a price text float() rejects
BadPriceEntry(s, p) ==
    [GoodEntry(s, p) EXCEPT !.price = Some(<<"$", "2", "9", "5", ",", "9", "9">>)]

\* the same entry with a data-rating int() rejects
BadRatingEntry(s, p) == [GoodEntry(s, p) EXCEPT !.rating = Some(<<"3", ".", "5">>)]

\* the same entry with a review count whose first word int() rejects
BadReviewsEntry(s, p) ==
    [GoodEntry(s, p) EXCEPT !.reviews = Some(<<"n", "o", " ", "r", "e", "v", "i", "e", "w", "s">>)]

DefectiveAt(s, p) ==
    {NoTitleEntry(s, p), NoDescriptionEntry(s, p), BadPriceEntry(s, p),
     BadRatingEntry(s, p), BadReviewsEntry(s, p)}

EntriesAt(s, p) == {GoodEntry(s, p)} \cup DefectiveAt(s, p)

HasDefect(l) == \E p \in 1..Len(l) : BuildError(l[p]) # "none"

\* the entries the page can render after listing l.  The comprehension of
\* line 91 stops at the first entry that raises and never reads what
\* follows it, so listings with one defective entry cover every run.
NextEntries(s, l) ==
    IF HasDefect(l) THEN {GoodEntry(s, Len(l) + 1)} ELSE EntriesAt(s, Len(l) + 1)

\* the listings of n entries section s can render
RECURSIVE Listings(_, _)
Listings(s, n) ==
    IF n = 0 THEN {<<>>}
    ELSE UNION {{Append(l, e) : e \in NextEntries(s, l)} : l \in Listings(s, n - 1)}

\* states of the load-more control: not in the page, in the page but not
\* interactable (hidden), in the page and clickable
MoreStates == {"absent", "hidden", "ready"}

ButtonValue(i) == CASE i = 1 -> "128" [] i = 2 -> "256" [] i = 3 -> "512" [] OTHER -> "1024"

\* the price the page displays once variant i is selected
VariantText(i) ==
    CASE i = 1 -> <<"$", "1", "0", ".", "0", "0">>
      [] i = 2 -> <<"$", "1", "1", ".", "2", "5">>
      [] i = 3 -> <<"$", "1", "2", ".", "5", "0">>
      [] OTHER -> <<"$", "1", "3", ".", "7", "5">>

\* a displayed price float() rejects once the "$" is removed
MalformedTexts == {<<"1", "0", ",", "0", "0">>}

\* the base price a detail page shows before any selection
BaseText == <<"$", "9", ".", "9", "9">>

\* the swatches groups of at most max buttons
SwatchGroups(max) ==
    UNION {{[i \in 1..n |-> [value |-> ButtonValue(i), disabled |-> d[i]]] :
               d \in [1..n -> BOOLEAN]} : n \in 0..max}

RECURSIVE SumRows(_)
SumRows(fs) == IF fs = <<>> THEN 0 ELSE (Len(Head(fs).rows) - 1) + SumRows(Tail(fs))

\* listing entries rendered in the sections already written
Rendered == SumRows(files)


(***************************************************************************)
(* Pure parts of the code.                                                 *)
(***************************************************************************)
\* mutant of ShouldClick: the disabled property is not consulted
ShouldClick_Always(button) == TRUE

\* line 49: a button is clicked iff its disabled property is false
ShouldClick(button) == ~button.disabled

\* mutant of ReadText: the price is taken from the listing snapshot, not
\* from the live detail page
ReadText_FromSnapshot == The(product_soups[entryIdx].price)

\* lines 51-53: the text of the element found by class "price" after the click
ReadText == shown

\* lines 51-53: .text.replace("$", "") handed to float()
VariantPrice(text) == ParseFloat(Replace(text, "$"))

\* mutant of AfterLoadMoreFailure: the except clause continues the loop
AfterLoadMoreFailure_Retry == "loadmore"

\* mutant of AfterLoadMoreFailure: the exception is not caught
AfterLoadMoreFailure_Propagate == "failed"

\* lines 85-87: any exception of the lookup or the click ends the loop
AfterLoadMoreFailure == "snapshot"

\* mutant of AfterLoadMoreClick: the loop is left after one click (an if
\* in place of the while)
AfterLoadMoreClick_Leave == "snapshot"

\* lines 78, 84: after a click the while True loop goes round again
AfterLoadMoreClick == "loadmore"

\* mutant of DetailUrl: the href is dropped and the session goes to BASE_URL
DetailUrl_Base(e) == BASE_URL

\* line 40: the detail URL of an entry that has its .title link
DetailUrl(e) == urljoin(BASE_URL, The(e.title).href)

\* mutant of ComprehensionDone: the last entry is left out
ComprehensionDone_Early == entryIdx >= Len(product_soups)

\* lines 91-92: every entry of product_soups has been parsed
ComprehensionDone == entryIdx > Len(product_soups)

\* mutant of Product: rating and number of reviews are exchanged
Product_Exchanged(e, hdd_prices) ==
    [title |-> The(e.title).title,
     description |-> The(e.description),
     price |-> The(ParseFloat(Replace(The(e.price), "$"))),
     rating |-> The(ParseInt(Split(The(e.reviews))[1])),
     num_of_reviews |-> The(ParseInt(The(e.rating))),
     additional_info |-> [hdd_prices |-> hdd_prices]]

\* lines 60-69: the Product built from an entry and its hdd prices
Product(e, hdd_prices) ==
    [title |-> The(e.title).title,
     description |-> The(e.description),
     price |-> The(ParseFloat(Replace(The(e.price), "$"))),
     rating |-> The(ParseInt(The(e.rating))),
     num_of_reviews |-> The(ParseInt(Split(The(e.reviews))[1])),
     additional_info |-> [hdd_prices |-> hdd_prices]]

\* lines 105-113: the row written for one product; csv.writer writes a
\* string as it is and a number as its str()
Row(product) ==
    <<product.title, product.description, FormatFloat(product.price),
      FormatInt(product.rating), FormatInt(product.num_of_reviews),
      DictGet(product.additional_info, "category", ""),
      DictGet(product.additional_info, "image", "")>>

\* mutant of CsvRows: nothing is written for an empty product list
CsvRows_SkipEmpty(ps) ==
    IF ps = <<>> THEN <<>> ELSE <<PRODUCT_FIELDS>> \o [i \in 1..Len(ps) |-> Row(ps[i])]

\* lines 102-113: the header row, then one row per product
CsvRows(ps) == <<PRODUCT_FIELDS>> \o [i \in 1..Len(ps) |-> Row(ps[i])]

(***************************************************************************)
(* Initial state: the module is loaded, get_all_products not yet entered.  *)
(***************************************************************************)
Init ==
    /\ pc = "start"
    /\ err = "none"
    /\ driver = "unset"
    /\ acquired = 0
    /\ quitCalls = 0
    /\ secIdx = 0
    /\ curPage = "data:,"
    /\ listing = <<>>
    /\ more = "absent"
    /\ lookups = 0
    /\ clicks = 0
    /\ product_soups = <<>>
    /\ entryIdx = 0
    /\ products = <<>>
    /\ detailNavs = 0
    /\ swatches = None
    /\ btnIdx = 0
    /\ shown = <<>>
    /\ displayed = EmptyDict
    /\ prices = EmptyDict
    /\ files = <<>>
    /\ buttonsServed = 0
    /\ snapshots = 0
    /\ consentAttempts = 0

sessionVars == <<driver, acquired, quitCalls>>

loopVars == <<lookups, clicks>>

listVars == <<listing, more>>

snapVars == <<product_soups, entryIdx, products>>

detailVars == <<swatches, btnIdx, shown, displayed, prices>>

callVars == <<snapshots, consentAttempts>>

\* WebDriver.quit(): the browser is closed and its page is gone
BrowserClosed ==
    /\ quitCalls' = quitCalls + 1
    /\ listing' = <<>>
    /\ more' = "absent"
    /\ swatches' = None
    /\ shown' = <<>>
    /\ displayed' = EmptyDict

\* lines 117, 140-142: an exception is caught nowhere: it unwinds
\* product_hdd_block_prices, parse_single_product, get_page_products and
\* the for loop, whose locals are dropped, and leaves the with block, whose
\* WebDriver.__exit__ calls quit(); get_all_products ends with the exception
Raise(e) ==
    /\ pc' = "failed"
    /\ err' = e
    /\ BrowserClosed
    /\ product_soups' = <<>>
    /\ entryIdx' = 0
    /\ products' = <<>>
    /\ btnIdx' = 0
    /\ prices' = EmptyDict
    /\ UNCHANGED <<driver, acquired, secIdx, curPage, loopVars, detailNavs, files,
                   buttonsServed,
                   callVars>>

(***************************************************************************)
(* get_all_products, lines 116-145.                                        *)
(***************************************************************************)
\* lines 117-118: with webdriver.Chrome() as new_driver: set_driver(new_driver)
Acquire ==
    /\ pc = "start"
    /\ acquired' = acquired + 1
    /\ driver' = "chrome"
    /\ secIdx' = 1
    /\ pc' = "section"
    /\ UNCHANGED <<err, quitCalls, curPage, listVars, loopVars, snapVars,
                   detailNavs, detailVars, files,
                   buttonsServed,
                   callVars>>

\* lines 140-142, 73-77: the next section is taken from pages_info and the
\* session navigates to its URL; the page renders some listing
NavigateSection ==
    /\ pc = "section"
    /\ secIdx <= Len(pages_info)
    /\ curPage' = SectionUrl(secIdx)
    /\ \E n \in 0..(MaxProducts - Rendered) : listing' \in Listings(secIdx, n)
    /\ more' \in MoreStates
    /\ lookups' = 0
    /\ clicks' = 0
    /\ detailNavs' = 0
    /\ swatches' = None
    /\ shown' = <<>>
    /\ displayed' = EmptyDict
    /\ product_soups' = <<>>
    /\ entryIdx' = 0
    /\ products' = <<>>
    /\ snapshots' = 0
    /\ pc' = IF Paginate(secIdx) THEN "loadmore" ELSE "snapshot"
    /\ UNCHANGED <<err, sessionVars, secIdx, btnIdx, prices, files,
                   buttonsServed, consentAttempts>>

\* line 145: new_driver.quit() after the last section
ExplicitQuit ==
    /\ pc = "section"
    /\ secIdx > Len(pages_info)
    /\ BrowserClosed
    /\ pc' = "exit"
    /\ UNCHANGED <<err, driver, acquired, secIdx, curPage, loopVars, snapVars,
                   detailNavs, btnIdx, prices, files,
                   buttonsServed,
                   callVars>>

\* line 117: the end of the with block is reached and WebDriver.__exit__
\* calls quit()
WithExit ==
    /\ pc = "exit"
    /\ BrowserClosed
    /\ pc' = "done"
    /\ UNCHANGED <<err, driver, acquired, secIdx, curPage, loopVars, snapVars,
                   detailNavs, btnIdx, prices, files,
                   buttonsServed,
                   callVars>>

\* lines 143-144, 95-113: the section's products are written to <name>.csv
WriteCsv ==
    /\ pc = "write"
    /\ files' = Append(files, [name |-> FileName(pages_info[secIdx].name),
                               rows |-> CsvRows(products)])
    /\ secIdx' = secIdx + 1
    /\ pc' = "section"
    /\ UNCHANGED <<err, sessionVars, curPage, listVars, loopVars, snapVars,
                   detailNavs, detailVars, buttonsServed,
                   callVars>>

(***************************************************************************)
(* get_page_products, lines 72-92.                                         *)
(***************************************************************************)
\* lines 80-84: the control is found and clicked; the page renders one more
\* entry and the control takes some state
LoadMoreClick ==
    /\ pc = "loadmore"
    /\ more = "ready"
    /\ Rendered + Len(listing) < MaxProducts
    /\ lookups' = lookups + 1
    /\ clicks' = clicks + 1
    /\ \E e \in NextEntries(secIdx, listing) : listing' = Append(listing, e)
    /\ more' \in MoreStates
    /\ pc' = AfterLoadMoreClick
    /\ UNCHANGED <<err, sessionVars, secIdx, curPage, snapVars, detailNavs,
                   detailVars, files,
                   buttonsServed,
                   callVars>>

\* lines 80-87: find_element raises NoSuchElementException (control absent),
\* or click raises ElementNotInteractableException (control hidden), or
\* either raises some other exception (whatever the control's state); the
\* exception is logged and the loop left
LoadMoreFail ==
    /\ pc = "loadmore"
    /\ lookups' = lookups + 1
    /\ pc' = AfterLoadMoreFailure
    /\ UNCHANGED <<err, sessionVars, secIdx, curPage, listVars, clicks, snapVars,
                   detailNavs, detailVars, files,
                   buttonsServed,
                   callVars>>

\* lines 89-90: the page source is parsed and its .thumbnail entries selected
Snapshot ==
    /\ pc = "snapshot"
    /\ product_soups' = listing
    /\ entryIdx' = 1
    /\ products' = <<>>
    /\ snapshots' = snapshots + 1
    /\ pc' = "parse"
    /\ UNCHANGED <<err, sessionVars, secIdx, curPage, listVars, loopVars,
                   detailNavs, detailVars, files,
                   buttonsServed, consentAttempts>>

\* lines 91-92: the comprehension is exhausted and the list returned
ReturnProducts ==
    /\ pc = "parse"
    /\ ComprehensionDone
    /\ pc' = "write"
    /\ UNCHANGED <<err, sessionVars, secIdx, curPage, listVars, loopVars, snapVars,
                   detailNavs, detailVars, files,
                   buttonsServed,
                   callVars>>

(***************************************************************************)
(* product_hdd_block_prices, lines 39-55.                                  *)
(***************************************************************************)
\* lines 40-42: the entry's href is joined to BASE_URL and the session
\* navigates to it; the page that loads has a swatches group or not
DetailNavigate ==
    /\ pc = "parse"
    /\ ~ComprehensionDone
    /\ ~IsNone(product_soups[entryIdx].title)
    /\ curPage' = DetailUrl(product_soups[entryIdx])
    /\ detailNavs' = detailNavs + 1
    /\ listing' = <<>>
    /\ more' = "absent"
    /\ swatches' \in {None} \cup {Some(g) : g \in SwatchGroups(MaxButtons - buttonsServed)}
    /\ buttonsServed' = buttonsServed + (IF IsNone(swatches') THEN 0 ELSE Len(The(swatches')))
    /\ shown' = BaseText
    /\ displayed' = EmptyDict
    /\ btnIdx' = 0
    /\ prices' = EmptyDict
    /\ pc' = "swatches"
    /\ UNCHANGED <<err, sessionVars, secIdx, loopVars, snapVars, files,
                   callVars>>

\* line 40: select_one(".title") is None and None["href"] raises TypeError
DetailNoTitle ==
    /\ pc = "parse"
    /\ ~ComprehensionDone
    /\ IsNone(product_soups[entryIdx].title)
    /\ Raise("TypeError")

\* lines 43-46: the swatches group is found and its buttons listed
FindSwatches ==
    /\ pc = "swatches"
    /\ ~IsNone(swatches)
    /\ btnIdx' = 1
    /\ prices' = EmptyDict
    /\ pc' = "button"
    /\ UNCHANGED <<err, sessionVars, secIdx, curPage, listVars, loopVars, snapVars,
                   detailNavs, swatches, shown, displayed, files,
                   buttonsServed,
                   callVars>>

\* line 43: find_element raises NoSuchElementException, which nothing catches
FindSwatchesFail ==
    /\ pc = "swatches"
    /\ IsNone(swatches)
    /\ Raise("NoSuchElementException")

\* line 49: the button is disabled and the loop goes to the next one
ButtonSkip ==
    /\ pc = "button"
    /\ btnIdx <= Len(The(swatches))
    /\ ~ShouldClick(The(swatches)[btnIdx])
    /\ btnIdx' = btnIdx + 1
    /\ UNCHANGED <<pc, err, sessionVars, secIdx, curPage, listVars, loopVars,
                   snapVars, detailNavs, swatches, shown, displayed, prices, files,
                   buttonsServed,
                   callVars>>

\* line 50: the button is clicked and the page overwrites the displayed price
ButtonClick ==
    /\ pc = "button"
    /\ btnIdx <= Len(The(swatches))
    /\ ShouldClick(The(swatches)[btnIdx])
    /\ shown' \in {VariantText(btnIdx)} \cup MalformedTexts
    /\ displayed' = DictSet(displayed, btnIdx, shown')
    /\ pc' = "read"
    /\ UNCHANGED <<err, sessionVars, secIdx, curPage, listVars, loopVars, snapVars,
                   detailNavs, swatches, btnIdx, prices, files,
                   buttonsServed,
                   callVars>>

\* lines 51-53: the displayed price is read, parsed and stored under the
\* button's value
ButtonRead ==
    /\ pc = "read"
    /\ ~IsNone(VariantPrice(ReadText))
    /\ prices' = DictSet(prices, The(swatches)[btnIdx].value, The(VariantPrice(ReadText)))
    /\ btnIdx' = btnIdx + 1
    /\ pc' = "button"
    /\ UNCHANGED <<err, sessionVars, secIdx, curPage, listVars, loopVars, snapVars,
                   detailNavs, swatches, shown, displayed, files,
                   buttonsServed,
                   callVars>>

\* lines 51-53: float() raises ValueError, which nothing catches
ButtonReadFail ==
    /\ pc = "read"
    /\ IsNone(VariantPrice(ReadText))
    /\ Raise("ValueError")

(***************************************************************************)
(* parse_single_product, lines 58-69.                                      *)
(***************************************************************************)
\* lines 55, 59-69: the prices are returned, the Product is built and the
\* comprehension goes to the next entry
BuildProduct ==
    /\ pc = "button"
    /\ btnIdx > Len(The(swatches))
    /\ BuildError(product_soups[entryIdx]) = "none"
    /\ products' = Append(products, Product(product_soups[entryIdx], prices))
    /\ entryIdx' = entryIdx + 1
    /\ btnIdx' = 0
    /\ prices' = EmptyDict
    /\ pc' = "parse"
    /\ UNCHANGED <<err, sessionVars, secIdx, curPage, listVars, loopVars,
                   product_soups, detailNavs, swatches, shown, displayed, files,
                   buttonsServed,
                   callVars>>

\* lines 55, 59-69: an element is missing or a text does not parse, and the
\* exception is caught nowhere
BuildProductFail ==
    /\ pc = "button"
    /\ btnIdx > Len(The(swatches))
    /\ BuildError(product_soups[entryIdx]) # "none"
    /\ Raise(BuildError(product_soups[entryIdx]))

Next ==
    \/ Acquire
    \/ NavigateSection
    \/ ExplicitQuit
    \/ WithExit
    \/ WriteCsv
    \/ LoadMoreClick
    \/ LoadMoreFail
    \/ Snapshot
    \/ ReturnProducts
    \/ DetailNavigate
    \/ DetailNoTitle
    \/ FindSwatches
    \/ FindSwatchesFail
    \/ ButtonSkip
    \/ ButtonClick
    \/ ButtonRead
    \/ ButtonReadFail
    \/ BuildProduct
    \/ BuildProductFail

Spec == Init /\ [][Next]_vars


(***************************************************************************)
(* Properties.                                                             *)
(***************************************************************************)
LoopDone == pc = "button" /\ btnIdx > Len(The(swatches))

\* the detail page of the product built last is still the session's page
JustBuilt == pc \in {"parse", "write", "section"} /\ ~IsNone(swatches)

LastProduct == products[Len(products)]

\* C1: whenever the detail page has no swatches group, the lookup of the
\* group ends without an error and with an empty mapping of prices, so that
\* the record of the product can still be built.
C1_AbsentGroupGivesEmptyMapping ==
    [][(pc = "swatches" /\ IsNone(swatches))
          => (err' = "none" /\ pc' # "failed" /\ prices' = EmptyDict)]_vars

\* C2: when the entry being built lacks its description element, only that
\* entry is skipped: no error ends the run, the products built so far are
\* kept and the comprehension goes to the next entry.
C2_MissingElementSkipsOnlyTheEntry ==
    [][(LoopDone /\ IsNone(product_soups[entryIdx].description))
          => (err' = "none" /\ pc' = "parse" /\ entryIdx' = entryIdx + 1
              /\ products' = products)]_vars

\* C3: a button of the current detail page that is disabled has never been
\* clicked, and its value is no key of the price mapping, neither while the
\* mapping is built nor in the record built from it.
C3_DisabledNeverClickedNorRecorded ==
    ~IsNone(swatches) =>
        \A i \in 1..Len(The(swatches)) :
            The(swatches)[i].disabled =>
                /\ i \notin DOMAIN displayed
                /\ The(swatches)[i].value \notin DOMAIN prices
                /\ JustBuilt =>
                     /\ products # <<>>
                     /\ The(swatches)[i].value
                            \notin DOMAIN LastProduct.additional_info.hdd_prices

\* a detail page with an enabled and a disabled button has been explored and
\* its record built
C3_Witness ==
    /\ pc = "parse"
    /\ ~IsNone(swatches)
    /\ products # <<>>
    /\ \E i, j \in 1..Len(The(swatches)) :
          /\ The(swatches)[i].disabled
          /\ ~The(swatches)[j].disabled
          /\ The(swatches)[j].value \in DOMAIN LastProduct.additional_info.hdd_prices

\* the enabled buttons among the first k of group g
EnabledUpTo(g, k) == {i \in 1..k : ~g[i].disabled}

\* the mapping from the value of each enabled button among the first k of g
\* to the number displayed right after its click
DisplayedPrices(g, k) ==
    [v \in {g[i].value : i \in EnabledUpTo(g, k)} |->
        LET i == CHOOSE j \in EnabledUpTo(g, k) : g[j].value = v
        IN The(ParseFloat(Replace(displayed[i], "$")))]

\* C4: the buttons are handled in markup order, one at a time: when the loop
\* is at button k, exactly the enabled buttons before k have been clicked
\* and the mapping holds, for exactly those, the price displayed right after
\* their own click; between the click of k and its read the page shows the
\* price of k; the mapping stored in the record is that of all enabled
\* buttons.
C4_MappingIsPriceShownAfterOwnClick ==
    ~IsNone(swatches) =>
        LET g == The(swatches) IN
        /\ pc = "button" =>
             /\ DOMAIN displayed = EnabledUpTo(g, btnIdx - 1)
             /\ prices = DisplayedPrices(g, btnIdx - 1)
        /\ pc = "read" =>
             /\ DOMAIN displayed = EnabledUpTo(g, btnIdx)
             /\ shown = displayed[btnIdx]
             /\ prices = DisplayedPrices(g, btnIdx - 1)
        /\ JustBuilt =>
             /\ products # <<>>
             /\ DOMAIN displayed = EnabledUpTo(g, Len(g))
             /\ LastProduct.additional_info.hdd_prices = DisplayedPrices(g, Len(g))

\* three buttons, the second disabled, prices $10.00 and $12.50: the record
\* holds {128: 10.00, 512: 12.50}
C4_Witness ==
    /\ pc = "parse"
    /\ swatches = Some(<<[value |-> "128", disabled |-> FALSE],
                         [value |-> "256", disabled |-> TRUE],
                         [value |-> "512", disabled |-> FALSE]>>)
    /\ displayed = (1 :> <<"$", "1", "0", ".", "0", "0">>
                    @@ 3 :> <<"$", "1", "2", ".", "5", "0">>)
    /\ products # <<>>
    /\ LastProduct.additional_info.hdd_prices = ("128" :> 1000 @@ "512" :> 1250)

\* C5: in a paginated section whose load-more control is absent at the first
\* iteration, that iteration ends the loop: one lookup, no click, nothing
\* more rendered, and the next step is the snapshot.
C5_AbsentControlEndsLoopAtOnce ==
    [][(pc = "loadmore" /\ more = "absent" /\ lookups = 0)
          => (pc' = "snapshot" /\ lookups' = 1 /\ clicks' = 0
              /\ listing' = listing /\ err' = "none")]_vars

\* the snapshot of a paginated section has been taken after one lookup of
\* an absent control and no click
C5_Witness ==
    /\ pc = "parse"
    /\ secIdx \in 1..Len(pages_info)
    /\ pages_info[secIdx].paginate
    /\ curPage = SectionUrl(secIdx)
    /\ more = "absent"
    /\ lookups = 1
    /\ clicks = 0
    /\ product_soups = listing

\* the positions inside the processing of section secIdx
InSection == pc \in {"loadmore", "snapshot", "parse", "swatches", "button", "read",
                     "write", "failed"}

\* C6: while a section whose paginate flag is false is processed, the
\* load-more loop is never entered and no lookup of and no click on the
\* load-more control has happened.
C6_NoPaginationWithoutFlag ==
    (InSection /\ ~pages_info[secIdx].paginate)
        => (pc # "loadmore" /\ lookups = 0 /\ clicks = 0)

\* the snapshot of a section without the flag has been taken while a
\* clickable load-more control is on its page
C6_Witness ==
    /\ pc = "parse"
    /\ secIdx \in 1..Len(pages_info)
    /\ ~pages_info[secIdx].paginate
    /\ curPage = SectionUrl(secIdx)
    /\ more = "ready"
    /\ lookups = 0

C8_SessionReleasedExactlyOnce ==
    /\ acquired <= 1
    /\ quitCalls <= 1
    /\ pc \in {"done", "failed"} => (acquired = 1 /\ quitCalls = 1)

SectionFiles == <<"home.csv", "computers.csv", "laptops.csv", "tablets.csv",
                  "phones.csv", "touch.csv">>

\* the URLs the session shows while section s is processed
SectionPages(s) ==
    {SectionUrl(s)} \cup {urljoin(BASE_URL, ProductHref(s, p)) : p \in 1..MaxProducts}

\* C9: the files written are, in order, home.csv, computers.csv,
\* laptops.csv, tablets.csv, phones.csv, touch.csv, one per section and all
\* six once the run has completed; while section s is processed exactly the
\* files of the sections before s are written and the session shows a page
\* of s; the file of s is written when every entry of s has been built.
C9_OneFilePerSectionInOrder ==
    /\ Len(files) <= Len(SectionFiles)
    /\ \A i \in 1..Len(files) : files[i].name = SectionFiles[i]
    /\ pc \in {"exit", "done"} => Len(files) = Len(SectionFiles)
    /\ (InSection \/ pc = "section") => Len(files) = secIdx - 1
    /\ pc \in {"loadmore", "snapshot", "parse", "swatches", "button", "read", "write"}
          => curPage \in SectionPages(secIdx)
    /\ pc = "write" => (entryIdx = Len(product_soups) + 1
                        /\ Len(products) = Len(product_soups))

\* a run has completed, with six files of which one holds a product
C9_Witness ==
    /\ pc = "done"
    /\ Len(files) = 6
    /\ \E i \in 1..6 : Len(files[i].rows) > 1

\* C10: a snapshot without entries is not an error: the comprehension
\* returns at once, without a navigation to a detail page, and the file
\* written for the section holds the header row and no other row.
C10_EmptyListingGivesHeaderOnly ==
    [][/\ (pc = "parse" /\ product_soups = <<>>)
            => (pc' = "write" /\ err' = "none" /\ detailNavs' = 0
                /\ curPage' = curPage)
       /\ (pc = "write" /\ product_soups = <<>>)
            => (/\ pc' = "section"
                /\ detailNavs = 0
                /\ Len(files') = Len(files) + 1
                /\ files'[Len(files')].name = SectionFiles[secIdx]
                /\ files'[Len(files')].rows =
                       <<(<<"title", "price", "category", "description", "image">>)>>)]_vars

\* a section without entries has been written: header only, no detail page
\* visited
C10_Witness ==
    /\ pc = "section"
    /\ files # <<>>
    /\ product_soups = <<>>
    /\ detailNavs = 0
    /\ files[Len(files)].rows = <<PRODUCT_FIELDS>>


\* C11: every file holds the header row and one row per product, and header
\* and rows are in lockstep: every data row has as many columns as the
\* header, and the column the header names title holds a title.
C11_HeaderAndRowsInLockstep ==
    \A f \in 1..Len(files) :
        /\ files[f].rows[1] = PRODUCT_FIELDS
        /\ \A r \in 2..Len(files[f].rows) :
              /\ Len(files[f].rows[r]) = Len(files[f].rows[1])
              /\ \A c \in 1..Len(files[f].rows[1]) :
                    files[f].rows[1][c] = "title"
                        => files[f].rows[r][c] \in {TitleAt(q) : q \in 1..MaxProducts}

\* the texts of entry e that are there but are no number
Unparsable(e) ==
    /\ ~IsNone(e.title) /\ ~IsNone(e.description) /\ ~IsNone(e.price)
    /\ ~IsNone(e.rating) /\ ~IsNone(e.reviews)
    /\ \/ IsNone(ParseFloat(Replace(The(e.price), "$")))
       \/ IsNone(ParseInt(The(e.rating)))
       \/ Split(The(e.reviews)) = <<>>
       \/ IsNone(ParseInt(Split(The(e.reviews))[1]))

\* C12: when the price displayed for a button, or the price, rating or
\* review count of the entry being built, is no number, only that product
\* is skipped: no error ends the run, the products built so far are kept
\* and the comprehension goes to the next entry.
C12_ParseFailureSkipsOnlyTheProduct ==
    [][(\/ pc = "read" /\ IsNone(ParseFloat(Replace(shown, "$")))
        \/ LoopDone /\ Unparsable(product_soups[entryIdx]))
          => (err' = "none" /\ pc' = "parse" /\ entryIdx' = entryIdx + 1
              /\ products' = products)]_vars

\* entry e has the five elements the builder reads, each with a usable text
Complete(e) ==
    /\ ~IsNone(e.title) /\ ~IsNone(e.description) /\ ~IsNone(e.price)
    /\ ~IsNone(e.rating) /\ ~IsNone(e.reviews)
    /\ ~Unparsable(e)

\* C13: when the builder has the prices of an entry that has every required
\* element, it appends one record to the list: its title is the title
\* attribute of the title link, its description the description text, its
\* price the price text without the currency sign read as a number, its
\* rating the data-rating attribute read as an integer, its number of
\* reviews the first word of the review-count text read as an integer, and
\* its additional_info holds under hdd_prices the mapping collected on the
\* detail page of that same entry.
C13_RecordMatchesEntry ==
    [][(LoopDone /\ Complete(product_soups[entryIdx]))
          => LET e == product_soups[entryIdx]
                 r == products'[Len(products')]
             IN /\ products' = Append(products, r)
                /\ r.title = The(e.title).title
                /\ r.description = The(e.description)
                /\ Some(r.price) = ParseFloat(Replace(The(e.price), "$"))
                /\ Some(r.rating) = ParseInt(The(e.rating))
                /\ Some(r.num_of_reviews) = ParseInt(Split(The(e.reviews))[1])
                /\ curPage = ORIGIN \o The(e.title).href.path
                /\ r.additional_info = [hdd_prices |-> prices]]_vars

\* the record of the first entry has been built, with a price for a button
C13_Witness ==
    /\ pc = "parse"
    /\ entryIdx = 2
    /\ Len(products) = 1
    /\ products[1].title = "Asus VivoBook X441NA"
    /\ products[1].description = "Asus VivoBook, 14in, Celeron N3450, 4GB, 128GB SSD"
    /\ products[1].price = 29599
    /\ products[1].rating = 3
    /\ products[1].num_of_reviews = 14
    /\ DOMAIN products[1].additional_info.hdd_prices # {}

\* the address of the detail page the link of entry e points to
OwnDetailPage(e) == ORIGIN \o The(e.title).href.path

\* C14: in every section the page source is read exactly once, after the
\* load-more loop has ended and before any detail page is visited; the
\* records built are one per entry of that snapshot, in its order; every
\* entry handled has caused exactly one navigation, to the address of its
\* own link; and when the section is written every entry has its record.
C14_OneSnapshotOneRecordPerEntry ==
    /\ pc \in {"loadmore", "snapshot"} => snapshots = 0 /\ detailNavs = 0
    /\ pc \in {"parse", "swatches", "button", "read", "write"} =>
          /\ snapshots = 1
          /\ Len(products) = entryIdx - 1
          /\ Len(products) <= Len(product_soups)
          /\ \A i \in 1..Len(products) :
                products[i].title = The(product_soups[i].title).title
    /\ pc = "parse" /\ entryIdx = 1 => product_soups = listing
    /\ pc \in {"parse", "write"} => detailNavs = Len(products)
    /\ pc \in {"swatches", "button", "read"} =>
          /\ detailNavs = Len(products) + 1
          /\ curPage = OwnDetailPage(product_soups[entryIdx])
    /\ pc = "write" => Len(products) = Len(product_soups)
    /\ pc \in {"section", "exit", "done"} /\ secIdx > 1 => snapshots = 1

\* a paginated section grown by a click is about to be written: one
\* snapshot, two entries, two navigations, two records
C14_Witness ==
    /\ pc = "write"
    /\ clicks >= 1
    /\ snapshots = 1
    /\ Len(product_soups) = 2
    /\ detailNavs = 2
    /\ Len(products) = 2
    /\ products[1].title # products[2].title

\* C15: in the load-more loop a click that succeeds is followed by another
\* attempt, and the loop is left only by an attempt that fails, towards the
\* snapshot: while the loop runs every attempt so far was a click, and
\* after it the clicks are the attempts before the one that failed.
C15_LoopLeftOnlyOnFailure ==
    [][pc = "loadmore" =>
          /\ lookups = clicks
          /\ clicks' = clicks + 1 => pc' = "loadmore" /\ lookups' = lookups + 1
          /\ pc' # "loadmore" =>
                /\ pc' = "snapshot"
                /\ clicks' = clicks
                /\ lookups' = clicks + 1]_vars

\* the loop has been left after two clicks and a third, failed attempt
C15_Witness ==
    /\ pc = "snapshot"
    /\ clicks = 2
    /\ lookups = 3
    /\ Len(listing) = 2

\* the addresses of the six sections, in the configured order
SectionAddress ==
    <<"https://webscraper.io/test-sites/e-commerce/more/",
      "https://webscraper.io/test-sites/e-commerce/more/computers",
      "https://webscraper.io/test-sites/e-commerce/more/computers/laptops",
      "https://webscraper.io/test-sites/e-commerce/more/computers/tablets",
      "https://webscraper.io/test-sites/e-commerce/more/phones",
      "https://webscraper.io/test-sites/e-commerce/more/phones/touch">>

\* the entries of listing l that have a link point into section s
EntriesOf(l, s) ==
    \A i \in 1..Len(l) :
        ~IsNone(l[i].title) =>
            The(l[i].title).href \in {ProductHref(s, q) : q \in 1..MaxProducts}

\* C16: the session is observed only on the page the observation is meant
\* for: while the load-more control is looked up or clicked and when the
\* page source is read, the session shows the address of the section at
\* hand and the listing of that section, with nothing of a detail page
\* left; while a button is clicked or the displayed price read, the session
\* shows the detail page of the entry being built.
C16_ObservationsOnIntendedPage ==
    /\ pc \in {"loadmore", "snapshot"} =>
          /\ curPage = SectionAddress[secIdx]
          /\ EntriesOf(listing, secIdx)
          /\ IsNone(swatches) /\ shown = <<>>
    /\ pc \in {"swatches", "button", "read"} =>
          /\ curPage = OwnDetailPage(product_soups[entryIdx])
          /\ curPage # SectionAddress[secIdx]
          /\ EntriesOf(product_soups, secIdx)

\* the section before ended on a detail page, and the page source of the
\* next section is about to be read on that section's own address
C16_Witness ==
    /\ pc = "snapshot"
    /\ secIdx = 3
    /\ Len(files) = 2
    /\ Len(files[2].rows) = 2
    /\ clicks = 1
    /\ Len(listing) = 1
    /\ curPage = "https://webscraper.io/test-sites/e-commerce/more/computers/laptops"

\* the names of the files written are the first names of the configured order
FilesArePrefix ==
    /\ Len(files) <= Len(SectionFiles)
    /\ \A f \in 1..Len(files) : files[f].name = SectionFiles[f]

\* C17: in every state, the state after an error that ended the run
\* included, the files written are those of the first sections of the
\* configured order, and the section at hand has none; a file is written
\* only once every entry of the snapshot of its section has its record, and
\* it holds them all; an error writes no file.
C17_FilesArePrefixOfFinishedSections ==
    [][/\ FilesArePrefix
       /\ FilesArePrefix'
       /\ InSection => Len(files) = secIdx - 1
       /\ files' # files =>
             /\ err = "none" /\ err' = "none"
             /\ entryIdx = Len(product_soups) + 1
             /\ Len(products) = Len(product_soups)
             /\ Len(files') = Len(files) + 1
             /\ files'[Len(files')].name = SectionFiles[secIdx]
             /\ Len(files'[Len(files')].rows) = Len(product_soups) + 1
       /\ pc' = "failed" => files' = files /\ Len(files') = secIdx' - 1]_vars

\* the run was ended by an error in the third section, while the second
\* entry of its snapshot was built: the files of the first two sections
\* are there, none for the third
C17_Witness ==
    /\ pc = "failed"
    /\ err # "none"
    /\ secIdx = 3
    /\ detailNavs = 2
    /\ Len(files) = 2
    /\ files[1].name = "home.csv"
    /\ files[2].name = "computers.csv"

\* C18: when a paginated section has been fetched, one dismissal of the
\* cookie/consent prompt is attempted before the load-more loop starts, and
\* the loop starts whether or not the dismissal succeeded.
C18_ConsentDismissalBeforeLoop ==
    [][(pc = "section" /\ pc' = "loadmore")
          => (consentAttempts' = consentAttempts + 1 /\ err' = "none")]_vars

====
